---- MODULE Spec2Model ----
(***************************************************************************)
(* GrantReady-Ledger: the in-process ledger engine (LedgerCore), its       *)
(* validator, its integrity verifier and the transaction processor, as a   *)
(* state machine.                                                          *)
(*                                                                         *)
(* Conventions of the model                                                *)
(*  - a decimal string ("1000.00", "1000") is [cents, digits]: the value   *)
(*    in hundredths and the number of fractional digits that are written;  *)
(*    parseFloat reads cents, toFixed(2) writes digits = 2, toString       *)
(*    writes the shortest form;                                            *)
(*  - an ISO timestamp is the millisecond clock value `now` it was read    *)
(*    from; the clock never runs backwards;                                *)
(*  - uuidv4() is a fresh identifier: the least natural not yet in use;    *)
(*  - an optional value (previousHash, executionTimestamp) is a sequence   *)
(*    of length 0 (undefined) or 1;                                        *)
(*  - SHA-256 is collision free: a digest is its preimage, wrapped;        *)
(*  - the Map of entries is the sequence of its values in insertion order  *)
(*    (Map iteration order); a transaction holds its entries by their      *)
(*    position in it, which is the aliasing of the stored entry objects.   *)
(***************************************************************************)
EXTENDS Integers, Sequences, FiniteSets, TLC

\* ----------------------------------------------------------------- bounds
MaxEntries == 4
MaxClock == 1
MaxSubmitting == 2

\* ------------------------------------------------------ program constants
requiredSignatures == 2
maxTransactionAmount == 1000000000
ToleranceCents == 1
enableMultiSignature == TRUE
supportedCurrencies == {"USD", "EUR", "GBP", "JPY", "CAD", "AUD"}
defaultCurrency == "USD"

VARIABLES
    entries,        \* LedgerCore.entries: the stored entries, insertion order
    transactions,   \* LedgerCore.transactions: the stored transactions
    balances,       \* LedgerCore.balances: "account:currency" -> Balance
    lastEntryHash,  \* LedgerCore.lastEntryHash: the chain tip (optional)
    now,            \* the millisecond clock
    pending,        \* createTransaction calls suspended in validateTransaction
    ret,            \* what the last completed call returned or threw
    tamperLog,      \* the external mutation of a stored entry, if one was made
    processingQueue, \* TransactionProcessor.processingQueue, insertion order
    isProcessing,   \* TransactionProcessor.isProcessing
    processing,     \* the await processQueue is suspended at, if it is running
    submitting,     \* submitTransaction calls suspended in validateTransaction
    verifying       \* a verifyIntegrity call suspended in verifyEntry, and the last
                    \* one that returned

procVars == <<processingQueue, isProcessing, processing, submitting>>

vars == <<entries, transactions, balances, lastEntryHash, now, pending, ret, tamperLog,
          procVars, verifying>>

\* ---------------------------------------------------------------- helpers
Range(s) == {s[i] : i \in DOMAIN s}

Abs(x) == IF x < 0 THEN -x ELSE x

MaxOf(S) == CHOOSE x \in S : \A y \in S : y <= x

Some(x) == <<x>>
None == <<>>

\* ---------------------------------------------------------- decimal text
\* parseFloat(s) for a well-formed decimal string: its value, in cents.
parseFloat(s) == s.cents

\* Number.prototype.toFixed(2): always two fractional digits.
toFixed2(c) == [cents |-> c, digits |-> 2]

\* Number.prototype.toString(): the shortest form ("1000", "10.5", "0.25").
numToString(c) ==
    [cents |-> c,
     digits |-> IF c % 100 = 0 THEN 0 ELSE IF c % 10 = 0 THEN 1 ELSE 2]

\* ------------------------------------------------------------------ inputs
Dec(c) == [cents |-> c, digits |-> 2]

Descriptor(accountId, accountType, ownerId, amount, currency, entryType, metadata) ==
    [accountId |-> accountId, accountType |-> accountType, ownerId |-> ownerId,
     ownerType |-> "ORGANIZATION", amount |-> amount, currency |-> currency,
     entryType |-> entryType, description |-> "entry", metadata |-> metadata]

Credit100 == Descriptor("funding", "FUNDING", "org-1", Dec(100), "USD", "CREDIT", <<>>)
Debit100 == Descriptor("disbursement", "DISBURSEMENT", "gov", Dec(100), "USD", "DEBIT", <<>>)
Debit50 == Descriptor("disbursement", "DISBURSEMENT", "gov", Dec(50), "USD", "DEBIT", <<>>)
Debit100Eur == Descriptor("disbursement", "DISBURSEMENT", "gov", Dec(100), "EUR", "DEBIT", <<>>)
Adjust100 == Descriptor("funding", "RESERVE", "org-1", Dec(100), "USD", "ADJUSTMENT",
                        [note |-> "n"])

\* The descriptor lists createTransaction is called with: a balanced pair in
\* both orders, an unbalanced pair, a pair in two currencies, a pair with an
\* ADJUSTMENT, a single descriptor and a balanced triple.
DescriptorLists ==
    { <<Credit100, Debit100>>, <<Debit100, Credit100>>, <<Credit100, Debit50>>,
      <<Credit100, Debit100Eur>>, <<Credit100, Adjust100>>, <<Credit100>>,
      <<Credit100, Debit50, Debit50>> }

UuidShaped == {"7d9f1c1e-0000-4000-8000-000000000001"}
GrantCycles == UuidShaped
TransactionTypes == {"ALLOCATION"}
Signers == {"signer-A", "signer-B"}
SignatureBytes == {"mock-signature-data"}
Statuses == {"DRAFT", "PENDING_APPROVAL", "APPROVED", "EXECUTED", "REJECTED", "CANCELLED"}
Actors == {"test"}
BalanceQueries == {<<"funding", "USD">>, <<"disbursement", "USD">>}

\* ------------------------------------------------------------------ Hasher
\* The keys of the payload createEntry hashes (entryData, part_000:65-77).
EntryDataKeys ==
    {"id", "timestamp", "grantCycleId", "transactionId", "account", "amount",
     "currency", "entryType", "description", "metadata", "previousHash"}

\* An object restricted to the keys of a replacer array.
Restrict(obj, keys) == [k \in (DOMAIN obj) \cap keys |-> obj[k]]

\* JSON.stringify(data, keys) with an array replacer: the array is the list
\* of property names that are written, and it filters the properties of
\* nested objects (account, metadata, each signature) as well as those of
\* data itself.  A property whose value is undefined is written as absent.
JSONstringify(data, keys) ==
    [k \in (DOMAIN data) \cap keys |->
        CASE k = "account"    -> Restrict(data[k], keys)
          [] k = "metadata"   -> Restrict(data[k], keys)
          [] k = "signatures" -> [i \in DOMAIN data[k] |-> Restrict(data[k][i], keys)]
          [] OTHER            -> data[k]]

SHA256(text) == [digest |-> text]

\* calculateHash with the replacer fixed to the keys createEntry hashes
\* instead of the keys of its argument.
calculateHash_EntryDataKeys(data) == SHA256(JSONstringify(data, EntryDataKeys))

\* LedgerCore.calculateHash: the replacer is Object.keys(data).sort(), the
\* keys of whatever object it is handed.
calculateHash(data) == SHA256(JSONstringify(data, DOMAIN data))

\* Auditor.calculateEntryHash: rebuilds the eleven-key payload first.
calculateEntryHash(entry) ==
    LET dataToHash == Restrict(entry, EntryDataKeys)
    IN  SHA256(JSONstringify(dataToHash, DOMAIN dataToHash))

\* -------------------------------------------------------------- EntryStore
UsedIds ==
    {entries[i].id : i \in DOMAIN entries}
        \cup {entries[i].transactionId : i \in DOMAIN entries}
        \cup {transactions[i].id : i \in DOMAIN transactions}
        \cup {pending[i].tx.id : i \in DOMAIN pending}

\* uuidv4(): the k-th fresh identifier.
FreshId(k) == MaxOf(UsedIds \cup {0}) + k

\* LedgerCore.createEntry: the entry it builds on chain tip `tip`.
createEntry(id, ts, tip, grantCycleId, transactionId, d, signatures) ==
    LET account == [id |-> d.accountId, type |-> d.accountType,
                    owner |-> [id |-> d.ownerId, type |-> d.ownerType]]
        entryData == [id |-> id, timestamp |-> ts, grantCycleId |-> grantCycleId,
                      transactionId |-> transactionId, account |-> account,
                      amount |-> d.amount, currency |-> d.currency,
                      entryType |-> d.entryType, description |-> d.description,
                      metadata |-> d.metadata, previousHash |-> tip]
        hash == calculateHash(entryData)
    IN  entryData @@
        [hash |-> hash,
         signatures |-> [i \in DOMAIN signatures |->
                            [signer |-> signatures[i].signer,
                             signature |-> signatures[i].signature,
                             timestamp |-> ts,
                             signatureType |-> signatures[i].signatureType]],
         status |-> "PENDING"]

\* The loop with the tip left where the call found it.
RECURSIVE AppendEntries_StaleTip(_, _, _, _, _, _, _)
AppendEntries_StaleTip(store, tip, txId, id, grantCycleId, ts, descs) ==
    IF descs = <<>> THEN [entries |-> store, tip |-> tip]
    ELSE LET e == createEntry(id, ts, tip, grantCycleId, txId, Head(descs), <<>>)
         IN  AppendEntries_StaleTip(Append(store, e), tip, txId, id + 1,
                                    grantCycleId, ts, Tail(descs))

\* The loop chaining its entries one to the next, with the tip it leaves
\* behind set to the hash of the first entry it appended.
RECURSIVE AppendEntries_TipOfFirst(_, _, _, _, _, _, _)
AppendEntries_TipOfFirst(store, tip, txId, id, grantCycleId, ts, descs) ==
    IF descs = <<>> THEN [entries |-> store, tip |-> tip]
    ELSE LET e == createEntry(id, ts, tip, grantCycleId, txId, Head(descs), <<>>)
             rest == AppendEntries_TipOfFirst(Append(store, e), Some(e.hash), txId, id + 1,
                                              grantCycleId, ts, Tail(descs))
         IN  [entries |-> rest.entries, tip |-> Some(e.hash)]

\* The loop of createTransaction over its descriptors (part_000:141-162):
\* each createEntry chains on the tip the one before it left and advances
\* it.  id is the identifier of the next entry.
RECURSIVE AppendEntries(_, _, _, _, _, _, _)
AppendEntries(store, tip, txId, id, grantCycleId, ts, descs) ==
    IF descs = <<>> THEN [entries |-> store, tip |-> tip]
    ELSE LET e == createEntry(id, ts, tip, grantCycleId, txId, Head(descs), <<>>)
         IN  AppendEntries(Append(store, e), Some(e.hash), txId, id + 1,
                           grantCycleId, ts, Tail(descs))

\* Descriptors a caller hands to createEntry itself, as the tests do.
EntryDescriptors == {Credit100}

\* ------------------------------------------------------------ sign and sum
\* The sign with only DEBIT counted -amount.
SignedAmount_DebitOnly(e) ==
    IF e.entryType = "DEBIT" THEN -parseFloat(e.amount) ELSE parseFloat(e.amount)

\* CREDIT counts +amount, every other entry type -amount.
SignedAmount(e) ==
    IF e.entryType = "CREDIT" THEN parseFloat(e.amount) ELSE -parseFloat(e.amount)

RECURSIVE SignedSum(_)
SignedSum(es) == IF es = <<>> THEN 0 ELSE SignedAmount(Head(es)) + SignedSum(Tail(es))

\* --------------------------------------------------------------- Validator
AccountTypes == {"FUNDING", "DISBURSEMENT", "BENEFICIARY", "ADMINISTRATIVE", "RESERVE"}
OwnerTypes == {"ORGANIZATION", "INDIVIDUAL", "SYSTEM"}
EntryTypes == {"DEBIT", "CREDIT", "ADJUSTMENT"}
SignatureTypes == {"ECDSA", "EdDSA", "RSA"}

\* ledgerEntrySchema (validation.ts:23-38): the rules a value of the model
\* can break.  Identifiers come from uuidv4, timestamps from toISOString,
\* hashes from SHA-256 and currencies are three capitals, so those rules
\* hold by construction.
ledgerEntrySchemaErrors(entry) ==
    (IF entry.grantCycleId \in UuidShaped THEN <<>> ELSE <<"grantCycleId must be a valid GUID">>)
    \o (IF entry.account.type \in AccountTypes THEN <<>> ELSE <<"account.type must be one of">>)
    \o (IF entry.account.owner.type \in OwnerTypes THEN <<>> ELSE <<"account.owner.type must be one of">>)
    \o (IF entry.amount.digits <= 2 THEN <<>> ELSE <<"amount fails to match the required pattern">>)
    \o (IF entry.entryType \in EntryTypes THEN <<>> ELSE <<"entryType must be one of">>)
    \o (IF entry.description # "" THEN <<>> ELSE <<"description is not allowed to be empty">>)
    \o (IF Len(entry.signatures) >= 1 THEN <<>> ELSE <<"signatures must contain at least 1 items">>)

\* The items of transactionSchema.entries (validation.ts:46), in order.
RECURSIVE EntriesSchemaErrors(_)
EntriesSchemaErrors(es) ==
    IF es = <<>> THEN <<>>
    ELSE ledgerEntrySchemaErrors(Head(es)) \o EntriesSchemaErrors(Tail(es))

\* transactionSchema (validation.ts:40-62); the entries are validated as
\* items of the array, with abortEarly off.
transactionSchemaErrors(tx, es) ==
    (IF tx.grantCycleId \in UuidShaped THEN <<>> ELSE <<"grantCycleId must be a valid GUID">>)
    \o (IF tx.description # "" THEN <<>> ELSE <<"description is not allowed to be empty">>)
    \o EntriesSchemaErrors(es)
    \o (IF Len(es) >= 2 THEN <<>> ELSE <<"entries must contain at least 2 items">>)
    \o (IF tx.totalAmount.cents >= 0 /\ tx.totalAmount.digits <= 2 THEN <<>>
        ELSE <<"totalAmount fails to match the required pattern">>)
    \o (IF tx.requiredSignatures >= 1 /\ tx.requiredSignatures <= 10 THEN <<>>
        ELSE <<"requiredSignatures out of range">>)

\* amount > parseFloat(maxTransactionAmount), the maximum being in whole units.
ExceedsMaximum(c) ==
    c \div 100 > maxTransactionAmount
        \/ (c \div 100 = maxTransactionAmount /\ c % 100 > 0)

\* validateLedgerEntry (validation.ts:73-105): its errors.
validateLedgerEntry(entry) ==
    ledgerEntrySchemaErrors(entry)
    \o (IF parseFloat(entry.amount) <= 0 THEN <<"Amount must be positive">> ELSE <<>>)
    \o (IF ExceedsMaximum(parseFloat(entry.amount))
        THEN <<"Amount exceeds maximum allowed">> ELSE <<>>)

\* The loop of validateTransaction over the entries (validation.ts:142-148).
RECURSIVE EntriesValidationErrors(_)
EntriesValidationErrors(es) ==
    IF es = <<>> THEN <<>>
    ELSE validateLedgerEntry(Head(es)) \o EntriesValidationErrors(Tail(es))

RECURSIVE CreditSum(_)
CreditSum(es) ==
    IF es = <<>> THEN 0
    ELSE (IF Head(es).entryType = "CREDIT" THEN parseFloat(Head(es).amount) ELSE 0)
         + CreditSum(Tail(es))

\* The tolerance taken in whole units instead of hundredths.
Unbalanced_WholeUnits(total) == Abs(total) > 100 * ToleranceCents

\* Math.abs(total) > 0.01 on sums of two-digit amounts.
Unbalanced(total) == Abs(total) > ToleranceCents

\* validateTransaction (validation.ts:110-165): its errors; es are the
\* transaction's entry objects.
validateTransaction(tx, es) ==
    transactionSchemaErrors(tx, es)
    \o (IF Unbalanced(SignedSum(es))
        THEN <<"Transaction entries do not balance">> ELSE <<>>)
    \o (IF Cardinality({es[i].currency : i \in DOMAIN es}) > 1
        THEN <<"All entries in a transaction must use the same currency">> ELSE <<>>)
    \o EntriesValidationErrors(es)
    \o (IF Abs(CreditSum(es) - parseFloat(tx.totalAmount)) > ToleranceCents
        THEN <<"Total amount mismatch">> ELSE <<>>)

\* --------------------------------------------------- TransactionAssembler
\* The running totalAmount of createTransaction (part_000:139,159-161).
RECURSIVE TotalAmount(_, _)
TotalAmount(acc, descs) ==
    IF descs = <<>> THEN acc
    ELSE TotalAmount(
            IF Head(descs).entryType = "CREDIT"
            THEN numToString(parseFloat(acc) + parseFloat(Head(descs).amount))
            ELSE acc,
            Tail(descs))

\* What a call returned or threw: the operation, whether it returned, the
\* kind of error and its list of messages, the id of the transaction the call
\* returned or was building, and the value (a balance) it returned.
NoReturn ==
    [op |-> "none", ok |-> TRUE, error |-> "", errors |-> <<>>, id |-> 0, value |-> None]

Returned(op, id) ==
    [op |-> op, ok |-> TRUE, error |-> "", errors |-> <<>>, id |-> id, value |-> None]

Threw(op, error, errors, id) ==
    [op |-> op, ok |-> FALSE, error |-> error, errors |-> errors, id |-> id, value |-> None]

\* The Transaction object createTransaction builds (part_000:165-183).
NewTransaction(id, ts, grantCycleId, transactionType, entryIds, totalAmount, currency, description) ==
    [id |-> id, timestamp |-> ts, grantCycleId |-> grantCycleId,
     transactionType |-> transactionType, description |-> description,
     entries |-> entryIds, totalAmount |-> totalAmount, currency |-> currency,
     requiredSignatures |-> requiredSignatures, receivedSignatures |-> <<>>,
     status |-> "DRAFT", executionTimestamp |-> None,
     auditTrail |-> <<[timestamp |-> ts, action |-> <<"CREATED">>, actor |-> "system",
                       details |-> None]>>]

\* createTransaction up to its await of validateTransaction (part_000:106-186):
\* the balance precheck, the chained entries, the DRAFT transaction.  The
\* schema, balance and currency checks of validateTransaction run before its
\* first await; no operation can reach the new entries until it returns.
CreateTransactionBegin(grantCycleId, transactionType, descs, description) ==
    LET id == FreshId(1)
        total == SignedSum(descs)
        app == AppendEntries(entries, lastEntryHash, id, FreshId(2), grantCycleId,
                             now, descs)
        es == SubSeq(app.entries, Len(entries) + 1, Len(app.entries))
        tx == NewTransaction(id, now, grantCycleId, transactionType,
                             [i \in DOMAIN es |-> Len(entries) + i],
                             TotalAmount([cents |-> 0, digits |-> 0], descs),
                             IF es # <<>> THEN es[1].currency ELSE defaultCurrency,
                             description)
    IN  IF Unbalanced(total)
        THEN /\ ret' = Threw("createTransaction", "UnbalancedEntries", <<>>, 0)
             /\ UNCHANGED <<entries, transactions, balances, lastEntryHash, now,
                            pending, tamperLog, procVars, verifying>>
        ELSE /\ Len(entries) + Len(descs) <= MaxEntries
             /\ entries' = app.entries
             /\ lastEntryHash' = app.tip
             /\ pending' = Append(pending, [tx |-> tx, errors |-> validateTransaction(tx, es)])
             /\ UNCHANGED <<transactions, balances, now, ret, tamperLog, procVars, verifying>>

RemoveAt(s, i) == SubSeq(s, 1, i - 1) \o SubSeq(s, i + 1, Len(s))

\* createTransaction after validateTransaction returned (part_000:187-196).
CreateTransactionEnd(i) ==
    /\ i \in DOMAIN pending
    /\ pending' = RemoveAt(pending, i)
    /\ IF pending[i].errors # <<>>
       THEN /\ ret' = Threw("createTransaction", "ValidationFailed",
                            pending[i].errors, pending[i].tx.id)
            /\ UNCHANGED transactions
       ELSE /\ transactions' = Append(transactions, pending[i].tx)
            /\ ret' = Returned("createTransaction", pending[i].tx.id)
    /\ UNCHANGED <<entries, balances, lastEntryHash, now, tamperLog, procVars, verifying>>

\* LedgerCore.createEntry as a call of its own (part_000:38-101), for a
\* transaction id of the caller's ("tx-1" in the tests), with no signatures.
CreateEntry(grantCycleId, d) ==
    /\ Len(entries) < MaxEntries
    /\ LET e == createEntry(FreshId(1), now, lastEntryHash, grantCycleId, 0, d, <<>>)
       IN  /\ entries' = Append(entries, e)
           /\ lastEntryHash' = Some(e.hash)
           /\ ret' = Returned("createEntry", 0)
    /\ UNCHANGED <<transactions, balances, now, pending, tamperLog, procVars, verifying>>

\* The clock advances.
Tick ==
    /\ now < MaxClock
    /\ now' = now + 1
    /\ UNCHANGED <<entries, transactions, balances, lastEntryHash, pending, ret, tamperLog, procVars, verifying>>

\* ---------------------------------------------------- ApprovalStateMachine
HasTransaction(id) == \E i \in DOMAIN transactions : transactions[i].id = id

TransactionIndex(id) == CHOOSE i \in DOMAIN transactions : transactions[i].id = id

\* The entry objects of a transaction, in the order of its entries array.
EntriesOf(tx) == [k \in DOMAIN tx.entries |-> entries[tx.entries[k]]]

\* LedgerCore.updateBalances (part_000:411-435): the index after the entries
\* es have been applied to bal, one after the other.  A Balance is modelled
\* without asOf, the time of the update, which no operation reads.
RECURSIVE updateBalances(_, _)
updateBalances(bal, es) ==
    IF es = <<>> THEN bal
    ELSE LET entry == Head(es)
             balanceKey == <<entry.account.id, entry.currency>>
             balance == IF balanceKey \in DOMAIN bal THEN bal[balanceKey]
                        ELSE [accountId |-> entry.account.id,
                              balance |-> [cents |-> 0, digits |-> 0],
                              currency |-> entry.currency, verified |-> FALSE]
             currentBalance == parseFloat(balance.balance)
             entryAmount == parseFloat(entry.amount)
             adjustment == IF entry.entryType = "CREDIT" THEN entryAmount ELSE -entryAmount
             updated == [balance EXCEPT !.balance = toFixed2(currentBalance + adjustment)]
         IN  updateBalances((balanceKey :> updated) @@ bal, Tail(es))

\* The ids a caller can name: every transaction id the ledger handed out,
\* and one it never did.
TransactionIds ==
    {0} \cup {entries[i].transactionId : i \in DOMAIN entries}
        \cup {transactions[i].id : i \in DOMAIN transactions}

\* The ledger state updateTransactionStatus reads and writes.
Ledger == [entries |-> entries, transactions |-> transactions, balances |-> balances]

\* LedgerCore.updateTransactionStatus (part_000:218-259) on the ledger state
\* L at time ts: whether it threw, and the state it left.  details is the
\* optional record the caller attaches to the audit record.
updateTransactionStatus(L, ts, transactionId, status, actor, details) ==
    IF ~\E i \in DOMAIN L.transactions : L.transactions[i].id = transactionId
    THEN [threw |-> TRUE, entries |-> L.entries, transactions |-> L.transactions,
          balances |-> L.balances]
    ELSE LET i == CHOOSE k \in DOMAIN L.transactions : L.transactions[k].id = transactionId
             tx == L.transactions[i]
             changed == [tx EXCEPT
                            !.status = status,
                            !.auditTrail = Append(@, [timestamp |-> ts,
                                                      action |-> <<"STATUS_CHANGE", status>>,
                                                      actor |-> actor,
                                                      details |-> details])]
             executed == [changed EXCEPT !.executionTimestamp = Some(ts)]
             confirmed == [k \in DOMAIN L.entries |->
                             IF k \in Range(tx.entries)
                             THEN [L.entries[k] EXCEPT !.status = "CONFIRMED"]
                             ELSE L.entries[k]]
         IN  [threw |-> FALSE,
              transactions |-> [L.transactions EXCEPT
                                   ![i] = IF status = "EXECUTED" THEN executed ELSE changed],
              entries |-> IF status = "EXECUTED" THEN confirmed ELSE L.entries,
              balances |-> IF status = "EXECUTED"
                           THEN updateBalances(L.balances,
                                    [k \in DOMAIN tx.entries |-> confirmed[tx.entries[k]]])
                           ELSE L.balances]

\* updateTransactionStatus as a call on the ledger.
UpdateTransactionStatus(transactionId, status, actor) ==
    LET r == updateTransactionStatus(Ledger, now, transactionId, status, actor, None)
    IN  /\ entries' = r.entries
        /\ transactions' = r.transactions
        /\ balances' = r.balances
        /\ ret' = IF r.threw THEN Threw("updateTransactionStatus", "NotFound", <<>>, 0)
                  ELSE Returned("updateTransactionStatus", transactionId)
        /\ UNCHANGED <<lastEntryHash, now, pending, tamperLog, procVars, verifying>>

\* LedgerCore.addSignature (part_000:264-309).
AddSignature(transactionId, signer, signature, signatureType) ==
    IF ~HasTransaction(transactionId)
    THEN /\ ret' = Threw("addSignature", "NotFound", <<>>, 0)
         /\ UNCHANGED <<entries, transactions, balances, lastEntryHash, now,
                        pending, tamperLog, procVars, verifying>>
    ELSE LET i == TransactionIndex(transactionId)
             tx == transactions[i]
             signed == [tx EXCEPT !.receivedSignatures = Append(@, signer)]
             approved == [signed EXCEPT
                            !.status = "APPROVED",
                            !.auditTrail = Append(@, [timestamp |-> now,
                                                      action |-> <<"ALL_SIGNATURES_RECEIVED">>,
                                                      actor |-> "system",
                                                      details |-> None])]
         IN  IF signer \in Range(tx.receivedSignatures)
             THEN /\ ret' = Threw("addSignature", "DuplicateSigner", <<>>, transactionId)
                  /\ UNCHANGED <<entries, transactions, balances, lastEntryHash, now,
                                 pending, tamperLog, procVars, verifying>>
             ELSE /\ entries' = [k \in DOMAIN entries |->
                                    IF k \in Range(tx.entries)
                                    THEN [entries[k] EXCEPT !.signatures =
                                            Append(@, [signer |-> signer,
                                                       signature |-> signature,
                                                       timestamp |-> now,
                                                       signatureType |-> signatureType])]
                                    ELSE entries[k]]
                  /\ transactions' = [transactions EXCEPT ![i] =
                        IF Len(signed.receivedSignatures) >= signed.requiredSignatures
                        THEN approved ELSE signed]
                  /\ ret' = Returned("addSignature", transactionId)
                  /\ UNCHANGED <<balances, lastEntryHash, now, pending, tamperLog, procVars, verifying>>

\* ---------------------------------------------------- TransactionProcessor
\* A Transaction handed to the processor is the stored object itself (what
\* createTransaction returns, own = None) or an object the caller built, which
\* carries its own entries (own = Some).
StoredItem(id) == [id |-> id, own |-> None]

CallerSignatures(signers) ==
    [k \in DOMAIN signers |->
        [signer |-> signers[k], signature |-> "mock-signature-data", signatureType |-> "ECDSA"]]

\* A transaction built by the caller, with an id the ledger never handed
\* out: two balanced entries signed by the given signers.
CallerItem(signers) ==
    LET g == CHOOSE c \in GrantCycles : TRUE
        tx == [NewTransaction(0, 0, g, "ALLOCATION", <<>>, Dec(100), "USD", "caller")
                 EXCEPT !.receivedSignatures = signers]
        es == <<createEntry(0, 0, None, g, 0, Credit100, CallerSignatures(signers)),
                createEntry(0, 0, None, g, 0, Debit100, CallerSignatures(signers))>>
    IN  [id |-> 0, own |-> Some([tx |-> tx, es |-> es])]

CallerItems == {CallerItem(sg) : sg \in {<<>>, <<"signer-A">>, <<"signer-A", "signer-B">>}}

\* What a caller can submit.
SubmittableItems == CallerItems \cup {StoredItem(transactions[i].id) : i \in DOMAIN transactions}

\* The object behind an item, as the ledger state L has it now.
TransactionOf(L, item) ==
    IF item.own # None THEN item.own[1].tx
    ELSE L.transactions[CHOOSE k \in DOMAIN L.transactions : L.transactions[k].id = item.id]

ItemEntries(L, item) ==
    IF item.own # None THEN item.own[1].es
    ELSE LET tx == TransactionOf(L, item) IN [k \in DOMAIN tx.entries |-> L.entries[tx.entries[k]]]

QueuedIds == {processingQueue[k].id : k \in DOMAIN processingQueue}

\* The catch block of processTransaction (processor.ts:113-123): the status
\* is set to REJECTED with the error; if that throws too, the promise of
\* processTransaction is rejected.
ProcessCatch(L, ts, item, error) ==
    LET r == updateTransactionStatus(L, ts, item.id, "REJECTED", "transaction-processor",
                                     Some([error |-> error]))
    IN  [ledger |-> IF r.threw THEN L ELSE r, at |-> IF r.threw THEN "rejected" ELSE "fulfilled"]

\* processTransaction up to its first await (processor.ts:64-94).
ProcessBegin(L, ts, item) ==
    LET r1 == updateTransactionStatus(L, ts, item.id, "PENDING_APPROVAL",
                                      "transaction-processor", None)
        transaction == TransactionOf(r1, item)
        r2 == updateTransactionStatus(r1, ts, item.id, "APPROVED",
                                      "transaction-processor", None)
    IN  IF r1.threw THEN ProcessCatch(L, ts, item, "not found")
        ELSE IF /\ enableMultiSignature
                /\ transaction.requiredSignatures > 0
                /\ Len(transaction.receivedSignatures) < transaction.requiredSignatures
        THEN [ledger |-> r1, at |-> "fulfilled"]
        ELSE IF r2.threw THEN ProcessCatch(r1, ts, item, "not found")
        ELSE [ledger |-> r2, at |-> "awaitSubmit"]

\* processQueue never raising its isProcessing flag.
ProcessQueueFrom_NoFlag(q, L) ==
    IF q = <<>>
    THEN /\ processingQueue' = q
         /\ isProcessing' = FALSE
         /\ processing' = None
         /\ UNCHANGED <<entries, transactions, balances>>
    ELSE LET p == ProcessBegin(L, now, Head(q))
         IN  /\ processingQueue' = Tail(q)
             /\ isProcessing' = FALSE
             /\ processing' = Some([item |-> Head(q), at |-> p.at])
             /\ entries' = p.ledger.entries
             /\ transactions' = p.ledger.transactions
             /\ balances' = p.ledger.balances

\* processQueue from the head of its loop (processor.ts:48-58) with the queue
\* q, up to the await it suspends at, or to its end.
ProcessQueueFrom(q, L) ==
    IF q = <<>>
    THEN /\ processingQueue' = q
         /\ isProcessing' = FALSE
         /\ processing' = None
         /\ UNCHANGED <<entries, transactions, balances>>
    ELSE LET p == ProcessBegin(L, now, Head(q))
         IN  /\ processingQueue' = Tail(q)
             /\ isProcessing' = TRUE
             /\ processing' = Some([item |-> Head(q), at |-> p.at])
             /\ entries' = p.ledger.entries
             /\ transactions' = p.ledger.transactions
             /\ balances' = p.ledger.balances

\* submitTransaction up to its await of validateTransaction (processor.ts:14-16).
SubmitTransactionBegin(item) ==
    /\ Len(submitting) < MaxSubmitting
    /\ submitting' = Append(submitting,
            [item |-> item,
             errors |-> validateTransaction(TransactionOf(Ledger, item),
                                            ItemEntries(Ledger, item))])
    /\ UNCHANGED <<entries, transactions, balances, lastEntryHash, now, pending, ret,
                   tamperLog, processingQueue, isProcessing, processing, verifying>>

\* submitTransaction after validateTransaction returned (processor.ts:17-36);
\* if the processor is idle, processQueue runs to its first await inside
\* this call.
SubmitTransactionEnd(i) ==
    /\ i \in DOMAIN submitting
    /\ submitting' = RemoveAt(submitting, i)
    /\ LET item == submitting[i].item
       IN  IF submitting[i].errors # <<>>
           THEN /\ ret' = Threw("submitTransaction", "ValidationFailed",
                                submitting[i].errors, item.id)
                /\ UNCHANGED <<entries, transactions, balances, processingQueue,
                               isProcessing, processing>>
           ELSE IF item.id \in QueuedIds
           THEN /\ ret' = Threw("submitTransaction", "AlreadyProcessing", <<>>, item.id)
                /\ UNCHANGED <<entries, transactions, balances, processingQueue,
                               isProcessing, processing>>
           ELSE /\ ret' = Returned("submitTransaction", item.id)
                /\ IF isProcessing
                   THEN /\ processingQueue' = Append(processingQueue, item)
                        /\ UNCHANGED <<entries, transactions, balances, isProcessing,
                                       processing>>
                   ELSE ProcessQueueFrom(Append(processingQueue, item), Ledger)
    /\ UNCHANGED <<lastEntryHash, now, pending, tamperLog, verifying>>

\* The processor resumes from the await it is suspended at: the sink's
\* submitTransaction (processor.ts:94), the sink's verifyTransaction
\* (processor.ts:97-111), or processTransaction itself (processor.ts:52-58).
\* The sink returns a hash or throws; its verification is true or false.
ProcessorResume ==
    /\ processing # None
    /\ LET item == processing[1].item
           at == processing[1].at
           Suspend(p) ==
               /\ processing' = Some([item |-> item, at |-> p.at])
               /\ entries' = p.ledger.entries
               /\ transactions' = p.ledger.transactions
               /\ balances' = p.ledger.balances
               /\ UNCHANGED <<processingQueue, isProcessing>>
           executed == updateTransactionStatus(Ledger, now, item.id, "EXECUTED",
                           "transaction-processor", Some([blockchainTxHash |-> item.id]))
       IN  CASE at = "awaitSubmit" ->
                   \E returned \in BOOLEAN :
                       IF returned THEN Suspend([ledger |-> Ledger, at |-> "awaitVerify"])
                       ELSE Suspend(ProcessCatch(Ledger, now, item, "sink failed"))
             [] at = "awaitVerify" ->
                   \E verified \in BOOLEAN :
                       IF verified /\ ~executed.threw
                       THEN Suspend([ledger |-> executed, at |-> "fulfilled"])
                       ELSE Suspend(ProcessCatch(Ledger, now, item,
                                        IF verified THEN "not found"
                                        ELSE "failed blockchain verification"))
             [] at = "fulfilled" -> ProcessQueueFrom(processingQueue, Ledger)
             [] at = "rejected" ->
                   /\ isProcessing' = FALSE
                   /\ processing' = None
                   /\ UNCHANGED <<entries, transactions, balances, processingQueue>>
    /\ UNCHANGED <<lastEntryHash, now, pending, ret, tamperLog, submitting, verifying>>

\* cancelTransaction without the try around the ledger update: the error of
\* an id the ledger does not hold reaches the caller.
CancelTransaction_Rethrows(transactionId, reason) ==
    IF transactionId \notin QueuedIds
    THEN /\ ret' = [Returned("cancelTransaction", transactionId) EXCEPT
                       !.value = Some([cancelled |-> FALSE])]
         /\ UNCHANGED <<entries, transactions, balances, lastEntryHash, now, pending,
                        tamperLog, procVars, verifying>>
    ELSE LET r == updateTransactionStatus(Ledger, now, transactionId, "CANCELLED",
                                          "transaction-processor", Some([reason |-> reason]))
         IN  /\ processingQueue' = SelectSeq(processingQueue,
                                             LAMBDA it : it.id # transactionId)
             /\ entries' = r.entries
             /\ transactions' = r.transactions
             /\ balances' = r.balances
             /\ ret' = IF r.threw
                       THEN Threw("cancelTransaction", "NotFound", <<>>, transactionId)
                       ELSE [Returned("cancelTransaction", transactionId) EXCEPT
                                !.value = Some([cancelled |-> TRUE])]
             /\ UNCHANGED <<lastEntryHash, now, pending, tamperLog, isProcessing,
                            processing, submitting, verifying>>

\* TransactionProcessor.cancelTransaction (processor.ts:144-166), which
\* TransactionManager.cancelTransaction forwards to.
CancelTransaction(transactionId, reason) ==
    IF transactionId \notin QueuedIds
    THEN /\ ret' = [Returned("cancelTransaction", transactionId) EXCEPT
                       !.value = Some([cancelled |-> FALSE])]
         /\ UNCHANGED <<entries, transactions, balances, lastEntryHash, now, pending,
                        tamperLog, procVars, verifying>>
    ELSE LET r == updateTransactionStatus(Ledger, now, transactionId, "CANCELLED",
                                          "transaction-processor", Some([reason |-> reason]))
         IN  /\ processingQueue' = SelectSeq(processingQueue,
                                             LAMBDA it : it.id # transactionId)
             /\ entries' = r.entries
             /\ transactions' = r.transactions
             /\ balances' = r.balances
             /\ ret' = [Returned("cancelTransaction", transactionId) EXCEPT
                           !.value = Some([cancelled |-> TRUE])]
             /\ UNCHANGED <<lastEntryHash, now, pending, tamperLog, isProcessing,
                            processing, submitting, verifying>>

\* ------------------------------------------------------------ BalanceIndex
\* The derivation without its filter on the entry status.
RECURSIVE DerivedTotal_AnyStatus(_, _, _)
DerivedTotal_AnyStatus(es, accountId, currency) ==
    IF es = <<>> THEN 0
    ELSE (IF Head(es).account.id = accountId /\ Head(es).currency = currency
          THEN (IF Head(es).entryType = "CREDIT" THEN parseFloat(Head(es).amount)
                ELSE -parseFloat(Head(es).amount))
          ELSE 0)
         + DerivedTotal_AnyStatus(Tail(es), accountId, currency)

\* The sum getAccountBalance derives from the stored entries (part_000:320-331).
RECURSIVE DerivedTotal(_, _, _)
DerivedTotal(es, accountId, currency) ==
    IF es = <<>> THEN 0
    ELSE (IF /\ Head(es).account.id = accountId
             /\ Head(es).currency = currency
             /\ Head(es).status = "CONFIRMED"
          THEN (IF Head(es).entryType = "CREDIT" THEN parseFloat(Head(es).amount)
                ELSE -parseFloat(Head(es).amount))
          ELSE 0)
         + DerivedTotal(Tail(es), accountId, currency)

\* The Balance getAccountBalance returns (part_000:314-345): the indexed
\* record if there is one, else the derived one.
getAccountBalance(accountId, currency) ==
    IF <<accountId, currency>> \in DOMAIN balances
    THEN balances[<<accountId, currency>>]
    ELSE [accountId |-> accountId,
          balance |-> toFixed2(DerivedTotal(entries, accountId, currency)),
          currency |-> currency, verified |-> FALSE]

\* LedgerCore.getAccountBalance as a call: a derived record is memoized.
GetAccountBalance(accountId, currency) ==
    /\ balances' = (<<accountId, currency>> :> getAccountBalance(accountId, currency))
                       @@ balances
    /\ ret' = [Returned("getAccountBalance", 0) EXCEPT
                  !.value = Some(getAccountBalance(accountId, currency).balance)]
    /\ UNCHANGED <<entries, transactions, lastEntryHash, now, pending, tamperLog, procVars, verifying>>

\* ------------------------------------------------------- IntegrityVerifier
\* Array.prototype.sort by timestamp: stable, so entries of one millisecond
\* keep their insertion order.
RECURSIVE InsertByTimestamp(_, _)
InsertByTimestamp(s, e) ==
    IF s = <<>> \/ s[Len(s)].timestamp <= e.timestamp THEN Append(s, e)
    ELSE Append(InsertByTimestamp(SubSeq(s, 1, Len(s) - 1), e), s[Len(s)])

RECURSIVE SortByTimestamp(_)
SortByTimestamp(es) ==
    IF es = <<>> THEN <<>>
    ELSE InsertByTimestamp(SortByTimestamp(SubSeq(es, 1, Len(es) - 1)), es[Len(es)])

VerifyError(kind, id, details) == [kind |-> kind, id |-> id, details |-> details]

\* Auditor.verifyEntry (auditor.ts:10-63), which core.ts calls as verifyEntry:
\* its errors.  Entries carry no zero-knowledge proof.
verifyEntry(entry) ==
    (IF calculateEntryHash(entry) # entry.hash
     THEN <<"Hash verification failed">> ELSE <<>>)
    \o (IF enableMultiSignature
           /\ \E i \in DOMAIN entry.signatures : entry.signatures[i].signature = ""
        THEN <<"Signature verification failed">> ELSE <<>>)
    \o (IF parseFloat(entry.amount) <= 0 THEN <<"Invalid amount">> ELSE <<>>)

\* The sweep that never records the hash of the entry it has passed.
RECURSIVE SweepErrors_NoAdvance(_, _)
SweepErrors_NoAdvance(sorted, previousHash) ==
    IF sorted = <<>> THEN <<>>
    ELSE LET entry == Head(sorted)
         IN  (IF previousHash # None /\ entry.previousHash # previousHash
              THEN <<VerifyError("BrokenChain", entry.id, <<>>)>> ELSE <<>>)
             \o (IF calculateHash(entry) # entry.hash
                 THEN <<VerifyError("InvalidHash", entry.id, <<>>)>> ELSE <<>>)
             \o (IF verifyEntry(entry) # <<>>
                 THEN <<VerifyError("EntryFailed", entry.id, verifyEntry(entry))>>
                 ELSE <<>>)
             \o SweepErrors_NoAdvance(Tail(sorted), previousHash)

\* The loop of verifyIntegrity over the sorted entries (part_000:359-378).
RECURSIVE SweepErrors(_, _)
SweepErrors(sorted, previousHash) ==
    IF sorted = <<>> THEN <<>>
    ELSE LET entry == Head(sorted)
         IN  (IF previousHash # None /\ entry.previousHash # previousHash
              THEN <<VerifyError("BrokenChain", entry.id, <<>>)>> ELSE <<>>)
             \o (IF calculateHash(entry) # entry.hash
                 THEN <<VerifyError("InvalidHash", entry.id, <<>>)>> ELSE <<>>)
             \o (IF verifyEntry(entry) # <<>>
                 THEN <<VerifyError("EntryFailed", entry.id, verifyEntry(entry))>>
                 ELSE <<>>)
             \o SweepErrors(Tail(sorted), Some(entry.hash))

\* The loop of verifyIntegrity over the transactions (part_000:381-391).
RECURSIVE UnbalancedErrors(_)
UnbalancedErrors(txs) ==
    IF txs = <<>> THEN <<>>
    ELSE (IF Unbalanced(SignedSum(EntriesOf(Head(txs))))
          THEN <<VerifyError("UnbalancedTransaction", Head(txs).id, <<>>)>> ELSE <<>>)
         \o UnbalancedErrors(Tail(txs))

\* LedgerCore.verifyIntegrity (part_000:350-398): its error list; valid is
\* that the list is empty.
verifyIntegrity ==
    SweepErrors(SortByTimestamp(entries), None) \o UnbalancedErrors(transactions)

\* verifyIntegrity writing the hash it computed over every entry whose
\* stored hash differs.
VerifyIntegrity_Repairs ==
    /\ ret' = [Returned("verifyIntegrity", 0) EXCEPT !.errors = verifyIntegrity]
    /\ entries' = [k \in DOMAIN entries |->
                      [entries[k] EXCEPT !.hash = calculateHash(entries[k])]]
    /\ UNCHANGED <<transactions, balances, lastEntryHash, now, pending, tamperLog,
                   procVars, verifying>>

\* verifyIntegrity as a call.  It writes no ledger state.
VerifyIntegrity ==
    /\ ret' = [Returned("verifyIntegrity", 0) EXCEPT !.errors = verifyIntegrity]
    /\ UNCHANGED <<entries, transactions, balances, lastEntryHash, now, pending, tamperLog, procVars, verifying>>

\* ------------------------------------------- the sweep, await by await
\* No verifyIntegrity call is suspended and none has returned.
NoSweep == [running |-> None, last |-> None]

\* What verifyIntegrity reads: entries, transactions, and with them the
\* index and the chain tip.
Snapshot ==
    [entries |-> entries, transactions |-> transactions, balances |-> balances,
     lastEntryHash |-> lastEntryHash]

\* sortedEntries (part_000:355-356) as store positions: the array holds
\* references to the entry objects, which stay those of the store.
RECURSIVE InsertPosition(_, _, _)
InsertPosition(es, s, k) ==
    IF s = <<>> \/ es[s[Len(s)]].timestamp <= es[k].timestamp THEN Append(s, k)
    ELSE Append(InsertPosition(es, SubSeq(s, 1, Len(s) - 1), k), s[Len(s)])

RECURSIVE SortedPositions(_, _)
SortedPositions(es, n) ==
    IF n = 0 THEN <<>> ELSE InsertPosition(es, SortedPositions(es, n - 1), n)

\* The errors array when it is not a fresh one: it starts with the errors
\* of the call before.
InitialErrors_Kept ==
    IF verifying.last = None THEN <<>> ELSE verifying.last[1].errors

\* const errors: string[] = [] (part_000:351).
InitialErrors == <<>>

\* One pass of the loop body before its await (part_000:360-369).
ChainAndHashErrors(entry, previousHash) ==
    (IF previousHash # None /\ entry.previousHash # previousHash
     THEN <<VerifyError("BrokenChain", entry.id, <<>>)>> ELSE <<>>)
    \o (IF calculateHash(entry) # entry.hash
        THEN <<VerifyError("InvalidHash", entry.id, <<>>)>> ELSE <<>>)

\* The loop body after verifyEntry returned (part_000:372-375).
EntryFailedErrors(entry) ==
    IF verifyEntry(entry) # <<>>
    THEN <<VerifyError("EntryFailed", entry.id, verifyEntry(entry))>> ELSE <<>>

\* The loop iterating the store as it is now instead of the array made at
\* the start of the call.
SweepOrder_Live(sw) == SortedPositions(entries, Len(entries))

\* The array the loop iterates: the one made at the start of the call
\* (part_000:355-358).
SweepOrder(sw) == sw.sorted

\* verifyIntegrity up to its first await of verifyEntry (part_000:350-372),
\* or to its return when the store is empty.  One call at a time.
VerifyIntegrityBegin ==
    /\ verifying.running = None
    /\ LET sorted == SortedPositions(entries, Len(entries))
           previous == IF verifying.last = None THEN None
                       ELSE Some([began |-> verifying.last[1].began,
                                  ended |-> verifying.last[1].ended,
                                  errors |-> verifying.last[1].errors])
       IN  IF sorted = <<>>
           THEN LET all == InitialErrors \o UnbalancedErrors(transactions)
                IN  /\ ret' = [Returned("verifyIntegrity", 0) EXCEPT !.errors = all]
                    /\ verifying' = [running |-> None,
                                     last |-> Some([began |-> Snapshot, ended |-> Snapshot,
                                                    errors |-> all, previous |-> previous])]
           ELSE /\ verifying' = [verifying EXCEPT !.running =
                        Some([sorted |-> sorted, at |-> 1, previousHash |-> None,
                              errors |-> InitialErrors
                                         \o ChainAndHashErrors(entries[sorted[1]], None),
                              began |-> Snapshot, previous |-> previous])]
                /\ UNCHANGED ret
    /\ UNCHANGED <<entries, transactions, balances, lastEntryHash, now, pending, tamperLog,
                   procVars>>

\* verifyIntegrity resumes when verifyEntry returns (part_000:372-397): it
\* records the entry's failure, moves previousHash on and runs to the next
\* await, or to the loop over the transactions and its return.
VerifyIntegrityResume ==
    /\ verifying.running # None
    /\ LET sw == verifying.running[1]
           sorted == SweepOrder(sw)
           entry == entries[sorted[sw.at]]
           errs == sw.errors \o EntryFailedErrors(entry)
       IN  IF sw.at < Len(sorted)
           THEN /\ verifying' = [verifying EXCEPT !.running =
                        Some([sw EXCEPT !.at = @ + 1,
                                        !.previousHash = Some(entry.hash),
                                        !.errors = errs \o ChainAndHashErrors(
                                                       entries[sorted[sw.at + 1]],
                                                       Some(entry.hash))])]
                /\ UNCHANGED ret
           ELSE LET all == errs \o UnbalancedErrors(transactions)
                IN  /\ ret' = [Returned("verifyIntegrity", 0) EXCEPT !.errors = all]
                    /\ verifying' = [running |-> None,
                                     last |-> Some([began |-> sw.began, ended |-> Snapshot,
                                                    errors |-> all,
                                                    previous |-> sw.previous])]
    /\ UNCHANGED <<entries, transactions, balances, lastEntryHash, now, pending, tamperLog,
                   procVars>>

\* ------------------------------------------------------ external mutation
\* The fields createEntry hashes, account and metadata by their parts.
PayloadFields ==
    {"id", "timestamp", "grantCycleId", "transactionId", "account.id", "account.type",
     "account.owner", "amount", "currency", "entryType", "description", "metadata",
     "previousHash"}

ForgedHash == SHA256([forged |-> TRUE])

\* Values a field can be changed to.
TamperValues(e, field) ==
    CASE field = "id"            -> {FreshId(1)}
      [] field = "timestamp"     -> 0..MaxClock
      [] field = "grantCycleId"  -> {"another-cycle"}
      [] field = "transactionId" -> {FreshId(1)}
      [] field = "account.id"    -> {"funding", "disbursement"}
      [] field = "account.type"  -> {"FUNDING", "BENEFICIARY"}
      [] field = "account.owner" -> {[id |-> "mallory", type |-> "INDIVIDUAL"]}
      [] field = "amount"        -> {Dec(parseFloat(e.amount) + 1)}
      [] field = "currency"      -> {"USD", "GBP"}
      [] field = "entryType"     -> {"CREDIT", "DEBIT"}
      [] field = "description"   -> {"changed"}
      [] field = "metadata"      -> {[note |-> "changed"]}
      [] field = "previousHash"  ->
            {None, Some(ForgedHash)} \cup {Some(entries[j].hash) : j \in DOMAIN entries}

FieldOf(e, field) ==
    CASE field = "account.id"    -> e.account.id
      [] field = "account.type"  -> e.account.type
      [] field = "account.owner" -> e.account.owner
      [] OTHER                   -> e[field]

WithField(e, field, v) ==
    CASE field = "account.id"    -> [e EXCEPT !.account.id = v]
      [] field = "account.type"  -> [e EXCEPT !.account.type = v]
      [] field = "account.owner" -> [e EXCEPT !.account.owner = v]
      [] OTHER                   -> [e EXCEPT ![field] = v]

\* A field of a stored entry is overwritten from outside the ledger's
\* operations, once, between calls.
Tamper(i, field, v) ==
    /\ tamperLog = <<>>
    /\ pending = <<>>
    /\ i \in DOMAIN entries
    /\ v \in TamperValues(entries[i], field)
    /\ v # FieldOf(entries[i], field)
    /\ entries' = [entries EXCEPT ![i] = WithField(@, field, v)]
    /\ tamperLog' = <<[index |-> i, field |-> field,
                       first |-> SortByTimestamp(entries)[1] = entries[i]]>>
    /\ UNCHANGED <<transactions, balances, lastEntryHash, now, pending, ret, procVars, verifying>>

Init ==
    /\ entries = <<>>
    /\ transactions = <<>>
    /\ balances = <<>>
    /\ lastEntryHash = None
    /\ now = 0
    /\ pending = <<>>
    /\ ret = NoReturn
    /\ tamperLog = <<>>
    /\ processingQueue = <<>>
    /\ isProcessing = FALSE
    /\ processing = None
    /\ submitting = <<>>
    /\ verifying = NoSweep

Next ==
    \/ \E g \in GrantCycles, t \in TransactionTypes, ds \in DescriptorLists :
            CreateTransactionBegin(g, t, ds, "tx")
    \/ \E i \in DOMAIN pending : CreateTransactionEnd(i)
    \/ \E g \in GrantCycles, d \in EntryDescriptors : CreateEntry(g, d)
    \/ \E id \in TransactionIds, st \in Statuses, a \in Actors :
            UpdateTransactionStatus(id, st, a)
    \/ \E id \in TransactionIds, sg \in Signers, b \in SignatureBytes :
            AddSignature(id, sg, b, "ECDSA")
    \/ \E q \in BalanceQueries : GetAccountBalance(q[1], q[2])
    \/ VerifyIntegrity
    \/ Tick

\* The ledger with one external mutation: entries are created, one field of
\* one stored entry is overwritten, the ledger is verified.
TamperNext ==
    \/ /\ tamperLog = <<>>
       /\ \/ \E g \in GrantCycles, t \in TransactionTypes, ds \in DescriptorLists :
                CreateTransactionBegin(g, t, ds, "tx")
          \/ \E i \in DOMAIN pending : CreateTransactionEnd(i)
          \/ Tick
    \/ \E i \in DOMAIN entries, f \in PayloadFields :
          \E v \in TamperValues(entries[i], f) : Tamper(i, f, v)
    \/ VerifyIntegrity

TamperSpec == Init /\ [][TamperNext]_vars

\* The ledger with the transaction processor: transactions are created,
\* submitted, processed and cancelled, signed and set to a status.
ProcessorNext ==
    \/ \E g \in GrantCycles, t \in TransactionTypes :
            CreateTransactionBegin(g, t, <<Credit100, Debit100>>, "tx")
    \/ \E i \in DOMAIN pending : CreateTransactionEnd(i)
    \/ \E id \in TransactionIds, st \in Statuses, a \in Actors :
            UpdateTransactionStatus(id, st, a)
    \/ \E id \in TransactionIds, sg \in Signers, b \in SignatureBytes :
            AddSignature(id, sg, b, "ECDSA")
    \/ \E item \in SubmittableItems : SubmitTransactionBegin(item)
    \/ \E i \in DOMAIN submitting : SubmitTransactionEnd(i)
    \/ ProcessorResume
    \/ \E id \in TransactionIds : CancelTransaction(id, "reason")

ProcessorSpec == Init /\ [][ProcessorNext]_vars

\* The ledger with verifyIntegrity suspended at each verifyEntry while
\* entries and transactions are created, signed and set to a status.
SweepNext ==
    \/ \E g \in GrantCycles, t \in TransactionTypes :
            CreateTransactionBegin(g, t, <<Credit100, Debit100>>, "tx")
    \/ \E i \in DOMAIN pending : CreateTransactionEnd(i)
    \/ \E id \in TransactionIds : UpdateTransactionStatus(id, "EXECUTED", "test")
    \/ \E id \in TransactionIds : AddSignature(id, "signer-A", "mock-signature-data", "ECDSA")
    \/ VerifyIntegrityBegin
    \/ VerifyIntegrityResume
    \/ Tick

SweepSpec == Init /\ [][SweepNext]_vars

Spec == Init /\ [][Next]_vars

\* ---------------------------------------------- execution as a function
\* The entry lists execution is applied to: two entries, each of either
\* account, any entry type and one of three amounts, two of them 0.01 apart
\* (1000.00 and 999.99, whose difference the precheck lets through).
ExecutionAmounts == {100, 99999, 100000}

ExecutionDescriptors ==
    {Descriptor(a[1], a[2], a[3], Dec(c), "USD", t, <<>>) :
        a \in {<<"funding", "FUNDING", "org-1">>, <<"disbursement", "DISBURSEMENT", "gov">>},
        c \in ExecutionAmounts, t \in EntryTypes}

ExecutionInputs == {<<d1, d2>> : d1 \in ExecutionDescriptors, d2 \in ExecutionDescriptors}

\* A ledger holding the entries of one transaction and no balance record.
ExecutionInit ==
    /\ \E g \in GrantCycles, ds \in ExecutionInputs :
          LET app == AppendEntries(<<>>, None, 1, 2, g, 0, ds)
          IN  entries = app.entries /\ lastEntryHash = app.tip
    /\ transactions = <<>>
    /\ balances = <<>>
    /\ now = 0
    /\ pending = <<>>
    /\ ret = NoReturn
    /\ tamperLog = <<>>
    /\ processingQueue = <<>>
    /\ isProcessing = FALSE
    /\ processing = None
    /\ submitting = <<>>
    /\ verifying = NoSweep

\* What updateTransactionStatus does to the entries of the transaction it
\* executes (part_000:244-251): they become CONFIRMED and updateBalances
\* applies them to the index.
ExecuteEntries ==
    /\ ret.op = "none"
    /\ entries' = [k \in DOMAIN entries |-> [entries[k] EXCEPT !.status = "CONFIRMED"]]
    /\ balances' = updateBalances(balances, entries')
    /\ ret' = Returned("updateTransactionStatus", entries[1].transactionId)
    /\ UNCHANGED <<transactions, lastEntryHash, now, pending, tamperLog, procVars, verifying>>

ExecutionNext ==
    \/ ExecuteEntries
    \/ /\ ret.op # "none"
       /\ \E q \in BalanceQueries : GetAccountBalance(q[1], q[2])

ExecutionSpec == ExecutionInit /\ [][ExecutionNext]_vars

\* ------------------------------------------------------------- properties
\* No call of createTransaction gets past the validator (see C10), so the
\* ledger never holds a transaction.
NoTransactionStored == transactions = <<>>

\* The net of the CONFIRMED entries of an account and currency among the
\* entries at the positions S: CREDIT amounts minus all others.
RECURSIVE ConfirmedNet(_, _, _)
ConfirmedNet(S, accountId, currency) ==
    IF S = {} THEN 0
    ELSE LET k == CHOOSE x \in S : TRUE
             e == entries[k]
             counts == /\ e.account.id = accountId
                       /\ e.currency = currency
                       /\ e.status = "CONFIRMED"
         IN  (IF ~counts THEN 0
              ELSE IF e.entryType = "CREDIT" THEN e.amount.cents ELSE -e.amount.cents)
             + ConfirmedNet(S \ {k}, accountId, currency)

C5_ExecutionSigns ==
    \A i \in DOMAIN entries, j \in DOMAIN entries :
        (/\ ret.op # "none"
         /\ entries[i].entryType = "CREDIT"
         /\ entries[j].entryType = "DEBIT"
         /\ entries[i].amount = entries[j].amount
         /\ entries[i].account.id # entries[j].account.id)
        => /\ getAccountBalance(entries[i].account.id, entries[i].currency).balance
                = [cents |-> -entries[i].amount.cents, digits |-> 2]
           /\ getAccountBalance(entries[j].account.id, entries[j].currency).balance
                = [cents |-> entries[j].amount.cents, digits |-> 2]

\* C6: with the stored entries ordered by timestamp, creation order deciding
\* ties, the first has no previousHash and every other has the hash of the
\* entry just before it; no two entries have the same previousHash.
C6_ChainContinuity ==
    LET s == SortByTimestamp(entries)
    IN  /\ s # <<>> => s[1].previousHash = None
        /\ \A i \in 2..Len(s) : s[i].previousHash = Some(s[i - 1].hash)
        /\ \A i \in DOMAIN s, j \in DOMAIN s :
              i # j => s[i].previousHash # s[j].previousHash

\* C6 witness: entries of two transactions stored in the same millisecond
\* and a later entry.
C6_Witness ==
    /\ \E i \in DOMAIN entries, j \in DOMAIN entries :
          /\ entries[i].timestamp = entries[j].timestamp
          /\ entries[i].transactionId # entries[j].transactionId
    /\ \E i \in DOMAIN entries, j \in DOMAIN entries :
          entries[i].timestamp < entries[j].timestamp

\* C7: on a ledger only its own operations have written, verifyIntegrity
\* returns an empty error list.
C7_UntamperedVerifies ==
    ret.op = "verifyIntegrity" => ret.errors = <<>>

\* C8: once a field of the hashed payload of a stored entry has been
\* changed, verifyIntegrity reports errors, an invalid hash of that entry
\* among them.
C8_TamperDetected ==
    tamperLog # <<>> =>
        /\ verifyIntegrity # <<>>
        /\ VerifyError("InvalidHash", entries[tamperLog[1].index].id, <<>>)
              \in Range(verifyIntegrity)

\* C8 witness: the type of an entry's account was changed and the ledger
\* verified.
C8_Witness ==
    /\ tamperLog # <<>>
    /\ tamperLog[1].field = "account.type"
    /\ ret.op = "verifyIntegrity"
    /\ ret.errors = verifyIntegrity

\* C9: once the previousHash of an entry that is not the first in timestamp
\* order has been changed, verifyIntegrity reports errors, a broken chain at
\* that entry among them.
C9_BrokenChainReported ==
    (/\ tamperLog # <<>>
     /\ tamperLog[1].field = "previousHash"
     /\ ~tamperLog[1].first)
    => /\ verifyIntegrity # <<>>
       /\ VerifyError("BrokenChain", entries[tamperLog[1].index].id, <<>>)
             \in Range(verifyIntegrity)

\* C9 witness: such a previousHash was changed and the ledger verified.
C9_Witness ==
    /\ tamperLog # <<>>
    /\ tamperLog[1].field = "previousHash"
    /\ ~tamperLog[1].first
    /\ ret.op = "verifyIntegrity"
    /\ ret.errors = verifyIntegrity

\* The entries a call of createTransaction created for its descriptors.
EntriesOfCall(id) == SelectSeq(entries, LAMBDA e : e.transactionId = id)

\* C10: a call of createTransaction with two or more descriptors that
\* balance, of one supported currency and positive amounts up to the maximum,
\* returns a stored transaction in DRAFT with no received signature and its
\* entries chained one to the next.
C10_CreateSucceeds ==
    LET es == EntriesOfCall(ret.id)
    IN  (/\ ret.op = "createTransaction"
         /\ ret.error # "UnbalancedEntries"
         /\ Len(es) >= 2
         /\ ~Unbalanced(SignedSum(es))
         /\ \A k \in DOMAIN es :
               /\ es[k].currency = es[1].currency
               /\ es[k].currency \in supportedCurrencies
               /\ es[k].amount.cents > 0
               /\ ~ExceedsMaximum(es[k].amount.cents))
        => /\ ret.ok
           /\ HasTransaction(ret.id)
           /\ transactions[TransactionIndex(ret.id)].status = "DRAFT"
           /\ transactions[TransactionIndex(ret.id)].receivedSignatures = <<>>
           /\ \A k \in 2..Len(es) : es[k].previousHash = Some(es[k - 1].hash)

\* The signed sum of descriptors: CREDIT amounts minus all others.
RECURSIVE DescriptorNet(_)
DescriptorNet(ds) ==
    IF ds = <<>> THEN 0
    ELSE (IF Head(ds).entryType = "CREDIT" THEN Head(ds).amount.cents
          ELSE -Head(ds).amount.cents) + DescriptorNet(Tail(ds))

\* C11: a call of createTransaction whose descriptors have a signed sum of
\* more than 0.01 in absolute value throws the unbalanced-entries error and
\* appends no entry, leaves the chain tip where it was and stores no
\* transaction.
C11_UnbalancedRejected ==
    [][\A g \in GrantCycles, t \in TransactionTypes, ds \in DescriptorLists :
          (/\ DescriptorNet(ds) > 1 \/ DescriptorNet(ds) < -1
           /\ CreateTransactionBegin(g, t, ds, "tx"))
          => /\ ret' = Threw("createTransaction", "UnbalancedEntries", <<>>, 0)
             /\ entries' = entries
             /\ lastEntryHash' = lastEntryHash
             /\ transactions' = transactions
             /\ pending' = pending]_vars

\* C11 witness: the call threw on a ledger that holds entries.
C11_Witness ==
    /\ ret.op = "createTransaction"
    /\ ret.error = "UnbalancedEntries"
    /\ entries # <<>>
    /\ pending = <<>>

\* Every transaction the processor takes from its queue is unknown to the
\* ledger (see C10), so processTransaction throws from its catch block before
\* it reaches the sink: the processor is only ever suspended on that
\* rejection.
SinkNeverCalled == processing # None => processing[1].at = "rejected"

\* A call of addSignature for an id the ledger does not hold throws and
\* leaves the ledger and the processor as they were.
AddSignatureUnknownId ==
    [][\A id \in TransactionIds, sg \in Signers, b \in SignatureBytes :
          (~HasTransaction(id) /\ AddSignature(id, sg, b, "ECDSA"))
          => /\ ret' = Threw("addSignature", "NotFound", <<>>, 0)
             /\ UNCHANGED <<entries, transactions, balances, lastEntryHash, procVars, verifying>>]_vars

\* C20: a call of cancelTransaction that found the transaction waiting in
\* the processing queue leaves it stored with status CANCELLED.
C20_CancelMovesToCancelled ==
    (ret.op = "cancelTransaction" /\ ret.value = Some([cancelled |-> TRUE]))
    => /\ HasTransaction(ret.id)
       /\ transactions[TransactionIndex(ret.id)].status = "CANCELLED"

\* C21: cancelTransaction returns true exactly when the id is in the
\* processing queue at the call. It then takes the id out of the queue,
\* keeps the other items, and returns true without raising also when the
\* ledger holds no such transaction. For an id that is not queued it returns
\* false and leaves the queue and the ledger as they were.
C21_CancelReturnsQueued ==
    [][\A id \in TransactionIds :
          CancelTransaction(id, "reason") =>
             IF \E k \in DOMAIN processingQueue : processingQueue[k].id = id
             THEN /\ ret'.ok
                  /\ ret'.value = Some([cancelled |-> TRUE])
                  /\ processingQueue'
                        = SelectSeq(processingQueue, LAMBDA it : it.id # id)
                  /\ \A k \in DOMAIN processingQueue' : processingQueue'[k].id # id
             ELSE /\ ret'.ok
                  /\ ret'.value = Some([cancelled |-> FALSE])
                  /\ UNCHANGED <<processingQueue, entries, transactions, balances,
                                 lastEntryHash>>]_vars

\* C21 witness: a queued id the ledger does not hold was cancelled.
C21_Witness ==
    /\ ret.op = "cancelTransaction"
    /\ ret.ok
    /\ ret.value = Some([cancelled |-> TRUE])
    /\ ~HasTransaction(ret.id)
    /\ \A k \in DOMAIN processingQueue : processingQueue[k].id # ret.id

\* C22: whatever calls of createTransaction are in flight, the entries of
\* each take consecutive places of the store, each after the first chained
\* on the one of the same call just before it, so no entry of another call
\* lies between two of them; the chain tip is the hash of the entry appended
\* last.
C22_ContiguousSegments ==
    /\ \A i \in DOMAIN entries, k \in DOMAIN entries :
          (/\ i < k
           /\ entries[i].transactionId # 0
           /\ entries[i].transactionId = entries[k].transactionId)
          => /\ \A j \in i..k : entries[j].transactionId = entries[i].transactionId
             /\ entries[i + 1].previousHash = Some(entries[i].hash)
    /\ entries # <<>> => lastEntryHash = Some(entries[Len(entries)].hash)

\* C22 witness: two calls of createTransaction, each with two entries
\* appended, are suspended at validation at once.
C22_Witness ==
    /\ Len(pending) = 2
    /\ Len(pending[1].tx.entries) = 2
    /\ Len(pending[2].tx.entries) = 2
    /\ pending[1].tx.id # pending[2].tx.id

\* The loop of verifyIntegrity over the transactions txs, their entries
\* taken from the store es.
RECURSIVE UnbalancedIn(_, _)
UnbalancedIn(txs, es) ==
    IF txs = <<>> THEN <<>>
    ELSE (IF Unbalanced(SignedSum([k \in DOMAIN Head(txs).entries |->
                                      es[Head(txs).entries[k]]]))
          THEN <<VerifyError("UnbalancedTransaction", Head(txs).id, <<>>)>> ELSE <<>>)
         \o UnbalancedIn(Tail(txs), es)

\* verifyIntegrity run in one step on the ledger state S.
AtomicSweep(S) ==
    SweepErrors(SortByTimestamp(S.entries), None) \o UnbalancedIn(S.transactions, S.entries)

\* C23: a verifyIntegrity call that was suspended at its verifyEntry calls
\* while other operations ran returns what a sweep run in one step on the
\* ledger as it was when the call began returns.
C23_SweepOfOneSnapshot ==
    verifying.last # None =>
        /\ verifying.last[1].errors = AtomicSweep(verifying.last[1].began)
        /\ ret.op = "verifyIntegrity" => ret.errors = verifying.last[1].errors

\* C23 witness: a sweep over a store that held entries returned, and
\* createTransaction appended entries while it was suspended.
C23_Witness ==
    /\ verifying.last # None
    /\ verifying.last[1].began.entries # <<>>
    /\ Len(verifying.last[1].ended.entries) > Len(verifying.last[1].began.entries)
    /\ ret.op = "verifyIntegrity"

\* C30: no step of verifyIntegrity changes entries, transactions, balances
\* or the chain tip, and of two calls in a row, with the ledger the same
\* from the start of the first to the return of the second, the second
\* returns the error list of the first (and so the same valid flag).
C30_VerifyIsIdempotent ==
    [][(VerifyIntegrityBegin \/ VerifyIntegrityResume) =>
          /\ UNCHANGED <<entries, transactions, balances, lastEntryHash>>
          /\ (/\ verifying'.last # None
              /\ verifying'.last[1].previous # None
              /\ verifying'.last[1].previous[1].began = verifying'.last[1].began
              /\ verifying'.last[1].previous[1].ended = verifying'.last[1].began
              /\ verifying'.last[1].began = verifying'.last[1].ended)
             => verifying'.last[1].errors = verifying'.last[1].previous[1].errors]_vars

\* C30 witness: two calls in a row returned on an unchanged ledger that
\* holds entries.
C30_Witness ==
    /\ verifying.last # None
    /\ verifying.last[1].previous # None
    /\ verifying.last[1].previous[1].began = verifying.last[1].began
    /\ verifying.last[1].previous[1].ended = verifying.last[1].began
    /\ verifying.last[1].began = verifying.last[1].ended
    /\ verifying.last[1].began.entries # <<>>
    /\ ret.op = "verifyIntegrity"
    /\ ret.errors = verifying.last[1].errors

\* A call of createTransaction whose entries are of two currencies throws,
\* the validator's same-currency error among its errors, and stores no
\* transaction.
MixedCurrenciesRejected ==
    LET es == EntriesOfCall(ret.id)
    IN  (/\ ret.op = "createTransaction"
         /\ ret.id # 0
         /\ Cardinality({es[k].currency : k \in DOMAIN es}) > 1)
        => /\ ~ret.ok
           /\ \E k \in DOMAIN ret.errors :
                 ret.errors[k] = "All entries in a transaction must use the same currency"
           /\ ~HasTransaction(ret.id)

\* Such a call was made.
MixedCurrenciesCalled ==
    /\ ret.op = "createTransaction"
    /\ ret.id # 0
    /\ Cardinality({e.currency : e \in Range(EntriesOfCall(ret.id))}) > 1

\* C26: the totalAmount of every transaction createTransaction has built is
\* the sum of the amounts of its CREDIT entries written with two fractional
\* digits.
C26_TotalAmountTwoDigits ==
    \A i \in DOMAIN pending :
        pending[i].tx.totalAmount = toFixed2(CreditSum(EntriesOf(pending[i].tx)))

\* C28: no step removes an entry or changes the id, timestamp, account,
\* amount, currency, entryType, description, metadata, previousHash or hash
\* of one; an entry that is CONFIRMED stays CONFIRMED and its signatures
\* only grow.
C28_EntriesImmutable ==
    [][/\ Len(entries') >= Len(entries)
       /\ \A i \in DOMAIN entries :
             LET e == entries[i]
                 f == entries'[i]
             IN  /\ f.id = e.id
                 /\ f.timestamp = e.timestamp
                 /\ f.account = e.account
                 /\ f.amount = e.amount
                 /\ f.currency = e.currency
                 /\ f.entryType = e.entryType
                 /\ f.description = e.description
                 /\ f.metadata = e.metadata
                 /\ f.previousHash = e.previousHash
                 /\ f.hash = e.hash
                 /\ e.status = "CONFIRMED" =>
                       /\ f.status = "CONFIRMED"
                       /\ Len(f.signatures) >= Len(e.signatures)
                       /\ SubSeq(f.signatures, 1, Len(e.signatures)) = e.signatures]_vars

\* C28 witness: the store holds the entries of a transaction and an entry
\* appended after them, and verifyIntegrity has run over them.
C28_Witness ==
    /\ Len(entries) >= 3
    /\ entries[1].transactionId # entries[3].transactionId
    /\ ret.op = "verifyIntegrity"
    /\ ret.errors # <<>>

\* The net of the entries es at the positions S under the stated convention:
\* the amount of a CREDIT, minus the amount of any other entry.
RECURSIVE ConventionNet(_, _)
ConventionNet(es, S) ==
    IF S = {} THEN 0
    ELSE LET k == CHOOSE x \in S : TRUE
         IN  (IF es[k].entryType = "CREDIT" THEN es[k].amount.cents ELSE -es[k].amount.cents)
             + ConventionNet(es, S \ {k})

AccountPositions(es, accountId, currency) ==
    {k \in DOMAIN es : es[k].account.id = accountId /\ es[k].currency = currency}

BeingProcessed(id) ==
    \/ id \in QueuedIds
    \/ processing # None /\ processing[1].item.id = id

\* C32: a submitTransaction call for a valid transaction that is being
\* processed, waiting in the queue or taken from it, throws the
\* already-being-processed error and leaves the queue as it was.
C32_NoSecondSubmit ==
    [][\A i \in DOMAIN submitting :
          (/\ SubmitTransactionEnd(i)
           /\ submitting[i].errors = <<>>
           /\ BeingProcessed(submitting[i].item.id))
          => /\ ret' = Threw("submitTransaction", "AlreadyProcessing", <<>>,
                             submitting[i].item.id)
             /\ processingQueue' = processingQueue]_vars

\* C34: the processing loop only ends on an empty queue, so whenever it is
\* not running no accepted transaction is left waiting for a later
\* submitTransaction call, and isProcessing is false.
C34_LoopEndsOnEmptyQueue ==
    processing = None => (processingQueue = <<>> /\ ~isProcessing)

\* C35: isProcessing is true whenever processQueue is suspended, and a
\* submitTransaction call that returns from validation while it is suspended
\* leaves the suspended loop as it is and at most appends its transaction to
\* the queue: no second loop starts.
C35_OneLoop ==
    [][/\ processing' # None => isProcessing'
       /\ \A i \in DOMAIN submitting :
             (SubmitTransactionEnd(i) /\ processing # None)
             => /\ processing' = processing
                /\ isProcessing'
                /\ processingQueue' = IF ret'.ok
                                      THEN Append(processingQueue, submitting[i].item)
                                      ELSE processingQueue]_vars

\* C35 witness: while processQueue is suspended, a submitTransaction call
\* was accepted and its transaction waits in the queue.
C35_Witness ==
    /\ processing # None
    /\ isProcessing
    /\ ret.op = "submitTransaction"
    /\ ret.ok
    /\ processingQueue # <<>>

\* C37: once createTransaction has thrown at validation, the store holds no
\* entry of that call, the chain tip is not the hash of one, and no
\* transaction of that id is stored.
C37_FailedCallLeavesNothing ==
    (ret.op = "createTransaction" /\ ret.error = "ValidationFailed")
    => /\ EntriesOfCall(ret.id) = <<>>
       /\ \A i \in DOMAIN entries :
             entries[i].transactionId = ret.id => lastEntryHash # Some(entries[i].hash)
       /\ ~HasTransaction(ret.id)

\* The sum of the balances the index holds under the keys K.
RECURSIVE IndexSum(_)
IndexSum(K) ==
    IF K = {} THEN 0
    ELSE LET key == CHOOSE x \in K : TRUE
         IN  parseFloat(balances[key].balance) + IndexSum(K \ {key})

C39_HashesAgree ==
    \A i \in DOMAIN entries :
        /\ calculateEntryHash(entries[i]) = entries[i].hash
        /\ calculateHash(entries[i]) = entries[i].hash
====
